---- MODULE Spec2Model ----
(***************************************************************************)
(* The registration form of src/app/components/ReactHookFormExample.tsx:   *)
(* a react-hook-form form validated by a zod schema, a debounced e-mail    *)
(* availability lookup (GET check-email) and the submission (POST users).  *)
(*                                                                         *)
(* One action is one task of the browser's event loop: a user event, a     *)
(* timer expiring, or the continuation of an awaited request.  Each runs   *)
(* to completion.  The component function runs again on every re-render;   *)
(* everything it defines (the debounced function of line 74 included) is   *)
(* created anew by each run.                                               *)
(*                                                                         *)
(* The Home page of src/app/page.tsx with its four counters, two on        *)
(* useState and two on the zustand store of store.ts, is modelled by the   *)
(* variable page and the specification SpecCounters.                       *)
(***************************************************************************)
EXTENDS Integers, Sequences, FiniteSets, TLC

VARIABLES
  values,      \* react-hook-form's field values (FormValues), one entry per field
  errors,      \* formState.errors: field -> message, "" when the field has none
  emailTaken,  \* useState<boolean | null>(null) of line 71
  phase,       \* position of handleSubmit(onSubmit): "Idle" or "Validating"
  posts,       \* POSTs to /api/users/ in flight, in the order they were sent
  gets,        \* GETs to /api/check-email/ in flight, in the order they were sent
  timers,      \* pending timers of debounced functions, earliest deadline first
  lastLookup,  \* the most recently issued GET (its email and outcome), or NoLookup
  today,       \* the local calendar date new Date() yields
  tzWest,      \* TRUE when the local time zone is behind UTC
  mounted,     \* TRUE while the form component is mounted
  lastValidation, \* the values, date and errors of the latest validation, or NoValidation
  privacyForm, \* the privacy-settings form: its values, errors and POSTs in flight
  page         \* the counters of the Home page: the store, the useState hooks, what is shown

vars ==
  <<values, errors, emailTaken, phase, posts, gets, timers, lastLookup, today, tzWest,
    mounted, lastValidation, privacyForm, page>>

\* What the handlers of the registration form leave alone unless said otherwise.
aux == <<mounted, lastValidation, privacyForm, page>>

-----------------------------------------------------------------------------
(* Bounds of the model *)

\* At most this many asynchronous operations (pending debounce timers, GETs
\* and POSTs in flight) are outstanding at once.
MaxLoad == 2

\* The first FreeCount fields of EditOrder are edited at any time, to any of
\* their inputs; the user fills the remaining fields once each, in the order of
\* EditOrder (after a reset the user may fill them again).
FreeCount == 1

EditOrder ==
  <<"email", "termsAccepted", "name", "date_of_birth", "age", "gender",
    "privacyPolicyAccepted", "privacySetting">>

-----------------------------------------------------------------------------
(* Raw values of the inputs *)

Fields ==
  {"name", "email", "date_of_birth", "age", "gender", "termsAccepted",
   "privacyPolicyAccepted", "privacySetting"}

\* A calendar date; NoDate is the empty string of an untouched date input.
Date(y, m, d) == [y |-> y, m |-> m, d |-> d]
NoDate == [y |-> 0, m |-> 0, d |-> 0]

\* What register("age", {valueAsNumber: true}) stores: NaN for an empty input.
Num(n) == [nan |-> FALSE, n |-> n]
NaN == [nan |-> TRUE, n |-> 0]

\* useForm without the declared default: the radio group starts unchecked.
DefaultsPrivacyUnset ==
  [name |-> "", email |-> "", date_of_birth |-> [y |-> 0, m |-> 0, d |-> 0],
   age |-> [nan |-> TRUE, n |-> 0], gender |-> "", termsAccepted |-> FALSE,
   privacyPolicyAccepted |-> FALSE, privacySetting |-> "null"]

\* The values the form holds once mounted, and again after reset(): the one
\* declared default, and for every other field what its untouched input holds.
Defaults ==
  [name |-> "", email |-> "", date_of_birth |-> NoDate, age |-> NaN,
   gender |-> "", termsAccepted |-> FALSE, privacyPolicyAccepted |-> FALSE,
   privacySetting |-> "public"]

\* The e-mail addresses the server already knows (isAvailable = false for them).
TakenEmails == {"a@b.com"}

\* z.string().email(): the strings of the model that have the shape of an address.
IsEmail(s) == s \in {"a@b.com", "c@d.com"}

\* What the user may enter into each field.
Inputs(f) ==
  CASE f = "name" -> {"", "Alice"}
    [] f = "email" -> {"a@b.com", "c@d.com"}
    [] f = "date_of_birth" -> {NoDate, Date(2000, 1, 1)}
    [] f = "age" -> {NaN, Num(30)}
    [] f = "gender" -> {"", "male"}
    [] f = "termsAccepted" -> BOOLEAN
    [] f = "privacyPolicyAccepted" -> BOOLEAN
    [] f = "privacySetting" -> {"public", "private"}

\* Raw values a field can hold when validation runs, wider than Inputs: a
\* malformed address, a birth date less than 18 years back, a non-positive
\* age, every option of the select and of the radio group, and the null of a
\* radio group with no button checked (the tag the schema has to reject).
AllInputs(f) ==
  CASE f = "name" -> {"", "Alice"}
    [] f = "email" -> {"", "bob", "a@b.com", "c@d.com"}
    [] f = "date_of_birth" -> {NoDate, Date(2000, 1, 1), Date(2008, 11, 6), Date(2010, 3, 1)}
    [] f = "age" -> {NaN, Num(0), Num(30)}
    [] f = "gender" -> {"", "male", "female"}
    [] f = "termsAccepted" -> BOOLEAN
    [] f = "privacyPolicyAccepted" -> BOOLEAN
    [] f = "privacySetting" -> {"public", "private", "protected", "null"}

-----------------------------------------------------------------------------
(* calculateAge and the schema *)

IsLeap(y) == (y % 4 = 0 /\ y % 100 # 0) \/ y % 400 = 0

DaysInMonth(y, m) ==
  IF m = 2 THEN (IF IsLeap(y) THEN 29 ELSE 28)
  ELSE IF m \in {4, 6, 9, 11} THEN 30 ELSE 31

PrevDay(dt) ==
  IF dt.d > 1 THEN Date(dt.y, dt.m, dt.d - 1)
  ELSE IF dt.m > 1 THEN Date(dt.y, dt.m - 1, DaysInMonth(dt.y, dt.m - 1))
  ELSE Date(dt.y - 1, 12, 31)

\* new Date("YYYY-MM-DD") is midnight UTC of that day; getFullYear, getMonth and
\* getDate read it in local time, which is still the day before when the zone is
\* behind UTC.  new Date("") is an Invalid Date (NoDate here).
NewDate(birthdate, west) ==
  IF birthdate = NoDate THEN NoDate
  ELSE IF west THEN PrevDay(birthdate) ELSE birthdate

\* calculateAge, for a valid birth date.
calculateAge(birthdate, now, west) ==
  LET birthDate == NewDate(birthdate, west)
      age == now.y - birthDate.y
      monthDifference == now.m - birthDate.m
  IN IF monthDifference < 0 \/ (monthDifference = 0 /\ now.d < birthDate.d)
     THEN age - 1
     ELSE age

\* The message zod gives for one field, "" when the field passes.  Every field
\* of z.object is parsed, and the resolver keeps the first issue of each field.
FieldError(f, v, now, west) ==
  CASE f = "name" -> IF v = "" THEN "Name is required" ELSE ""
    [] f = "email" -> IF IsEmail(v) THEN "" ELSE "Invalid email format"
    [] f = "date_of_birth" ->
         \* every field of an Invalid Date is NaN, and NaN >= 18 is false
         IF v # NoDate /\ calculateAge(v, now, west) >= 18 THEN ""
         ELSE "You must be at least 18 years old"
    [] f = "age" ->
         IF v.nan THEN "Expected number, received nan"
         ELSE IF v.n <= 0 THEN "Age must be a positive number"
         ELSE ""
    [] f = "gender" ->
         IF v \in {"male", "female"} THEN ""
         ELSE "Invalid enum value. Expected 'male' | 'female'"
    [] f = "termsAccepted" ->
         IF v = TRUE THEN "" ELSE "You must accept the terms and conditions"
    [] f = "privacyPolicyAccepted" ->
         IF v = TRUE THEN "" ELSE "You must accept the Privacy Policy"
    [] f = "privacySetting" ->
         IF v \in {"public", "private", "protected"} THEN ""
         ELSE "Select a valid privacy option"

\* zodResolver(schema): the errors of a record, NoErrors when it is Valid.
NoErrors == [f \in Fields |-> ""]

\* The fields in the order the schema declares them.
Declared ==
  <<"name", "email", "date_of_birth", "age", "gender", "termsAccepted",
    "privacyPolicyAccepted", "privacySetting">>

\* A resolver that also rejects an address the lookup has shown as taken.
ResolverSeesTaken(v, now, west) ==
  [f \in Fields |->
     IF f = "email" /\ emailTaken = "taken" THEN "Email is already taken"
     ELSE FieldError(f, v[f], now, west)]

\* A schema whose privacyPolicyAccepted rule was pasted from termsAccepted and
\* still tests that field.
ResolverPastedRule(v, now, west) ==
  [f \in Fields |->
     IF f = "privacyPolicyAccepted"
     THEN FieldError("termsAccepted", v["termsAccepted"], now, west)
     ELSE FieldError(f, v[f], now, west)]

\* A resolver that stops at the first failing field, in declaration order.
ResolverFirstOnly(v, now, west) ==
  LET bad == {i \in 1..Len(Declared) : FieldError(Declared[i], v[Declared[i]], now, west) # ""}
  IN [f \in Fields |->
        IF bad # {} /\ f = Declared[CHOOSE i \in bad : \A j \in bad : i <= j]
        THEN FieldError(f, v[f], now, west) ELSE ""]

Resolver(v, now, west) == [f \in Fields |-> FieldError(f, v[f], now, west)]

-----------------------------------------------------------------------------
(* Helpers on sequences *)

Remove(s, i) == [j \in 1..(Len(s) - 1) |-> IF j < i THEN s[j] ELSE s[j + 1]]

Load == Len(timers) + Len(gets) + Len(posts)

-----------------------------------------------------------------------------
(* Initial state: the component as mounted *)

Today0 == Date(2026, 11, 5)

NoLookup == [email |-> "", ok |-> FALSE, sent |-> FALSE]

NoValidation ==
  [done |-> FALSE, values |-> Defaults, today |-> Today0, taken |-> "null",
   errors |-> NoErrors]

\* The privacy-settings form as mounted: defaultValues { privacy: "public" },
\* every other field as its untouched input holds it.
PrivacyDefaults ==
  [name |-> "", email |-> "", birthDate |-> NoDate, privacy |-> "public",
   termsAccepted |-> FALSE]

PrivacyFields == {"name", "email", "birthDate", "privacy", "termsAccepted"}

NoPrivacyErrors == [f \in PrivacyFields |-> ""]

PrivacyMounted == [values |-> PrivacyDefaults, errors |-> NoPrivacyErrors, posts |-> <<>>]

\* The four counters Home renders: two keep count and text in useState
\* hooks of their own, two read them from the one store of store.ts.
StateBacked == {"CounterWithState", "CounterWithStateWithLayout"}
StoreBacked == {"CounterWithZustand", "CounterWithZustandWithLayout"}
Components == StateBacked \cup StoreBacked

\* create(...): count 0 and text "".  useState(0) and useState("") likewise.
StoreCreated == [count |-> 0, text |-> ""]

\* The page as first rendered.  store is the zustand state; local[c] is what
\* the hooks of c hold (the value of the latest setCount / setText); shown[c]
\* is the count and text the latest render of c read, which its handlers
\* close over and its markup displays.  clicks and lastText record what has
\* been asked of the store and of each useState counter.
PageMounted ==
  [store |-> StoreCreated,
   local |-> [c \in StateBacked |-> StoreCreated],
   shown |-> [c \in Components |-> StoreCreated],
   clicks |-> [t \in StateBacked \cup {"store"} |-> [inc |-> 0, dec |-> 0]],
   lastText |-> ""]

InitAux ==
  /\ mounted = TRUE
  /\ lastValidation = NoValidation
  /\ privacyForm = PrivacyMounted
  /\ page = PageMounted

Init ==
  /\ values = Defaults
  /\ errors = NoErrors
  /\ emailTaken = "null"
  /\ phase = "Idle"
  /\ posts = <<>>
  /\ gets = <<>>
  /\ timers = <<>>
  /\ lastLookup = NoLookup
  /\ today = Today0
  /\ tzWest = FALSE
  /\ InitAux

-----------------------------------------------------------------------------
(* Re-rendering *)

\* A re-render runs the component function again: line 74 creates a new
\* debounced function, and the timers of the earlier ones stay pending but
\* can no longer be re-armed by handleEmailChange.
Rerender(ts) == [i \in 1..Len(ts) |-> [ts[i] EXCEPT !.live = FALSE]]

-----------------------------------------------------------------------------
(* User input *)

Pos(f) == CHOOSE i \in 1..Len(EditOrder) : EditOrder[i] = f

CanEdit(f) ==
  \/ Pos(f) <= FreeCount
  \/ /\ values[f] = Defaults[f]
     /\ \A g \in Fields :
          (FreeCount < Pos(g) /\ Pos(g) < Pos(f)) => values[g] # Defaults[g]

\* register(f).onChange, fired when the input's value changes: the value is
\* stored; nothing else changes.
SetField(f, v) ==
  /\ phase = "Idle"
  /\ f # "email"
  /\ CanEdit(f)
  /\ v # values[f]
  /\ values' = [values EXCEPT ![f] = v]
  /\ UNCHANGED <<errors, emailTaken, phase, posts, gets, timers, lastLookup, today, tzWest>>

\* debounce(fn, 1000) called with email: the pending timer of this render's
\* debounced function, if any, is re-armed with the new argument, and so
\* becomes the one with the latest deadline.
Debounced(ts, email) ==
  LET kept == SelectSeq(ts, LAMBDA t : ~t.live)
  IN Append(kept, [email |-> email, live |-> TRUE])

\* A handleEmailChange that forgets the last answer as soon as the address
\* is edited.
handleEmailChangeClearing(email) ==
  /\ phase = "Idle"
  /\ CanEdit("email")
  /\ email # values["email"]
  /\ Len(Debounced(timers, email)) + Len(gets) + Len(posts) <= MaxLoad
  /\ values' = [values EXCEPT !["email"] = email]
  /\ timers' = Debounced(timers, email)
  /\ emailTaken' = "null"
  /\ UNCHANGED <<errors, phase, posts, gets, lastLookup, today, tzWest>>

\* handleEmailChange (the email input's onChange, fired when its value changes).
handleEmailChange(email) ==
  /\ phase = "Idle"
  /\ CanEdit("email")
  /\ email # values["email"]
  /\ Len(Debounced(timers, email)) + Len(gets) + Len(posts) <= MaxLoad
  /\ values' = [values EXCEPT !["email"] = email]
  /\ timers' = Debounced(timers, email)
  /\ UNCHANGED <<errors, emailTaken, phase, posts, gets, lastLookup, today, tzWest>>

-----------------------------------------------------------------------------
(* The availability lookup *)

\* The quiet window of the earliest pending timer has passed: the debounced
\* body runs and sends the GET.  Whether the GET will succeed is the
\* network's choice.
TimerFires ==
  /\ phase = "Idle"
  /\ timers # <<>>
  /\ \E ok \in BOOLEAN :
       /\ gets' = Append(gets, [email |-> Head(timers).email, ok |-> ok])
       /\ lastLookup' = [email |-> Head(timers).email, ok |-> ok, sent |-> TRUE]
  /\ timers' = Tail(timers)
  /\ UNCHANGED <<values, errors, emailTaken, phase, posts, today, tzWest>>

\* setEmailTaken(!response.data.isAvailable)
Availability(email) == IF email \in TakenEmails THEN "taken" ELSE "available"

\* emailTaken after the GET for g settles: set from the response, or (catch)
\* left as it was.
AfterLookup(g, taken) == IF g.ok THEN Availability(g.email) ELSE taken

\* The continuation of "await axios.get" for the i-th GET in flight.
LookupSettles(i) ==
  /\ phase = "Idle"
  /\ i \in 1..Len(gets)
  /\ gets' = Remove(gets, i)
  /\ emailTaken' = AfterLookup(gets[i], emailTaken)
  /\ timers' = IF emailTaken' # emailTaken THEN Rerender(timers) ELSE timers
  /\ UNCHANGED <<values, errors, phase, posts, lastLookup, today, tzWest>>

-----------------------------------------------------------------------------
(* Submission *)

\* The form's submit event: handleSubmit(onSubmit) starts and awaits the
\* resolver.  The submit button is always enabled.
ClickSubmit ==
  /\ phase = "Idle"
  /\ Load < MaxLoad
  /\ phase' = "Validating"
  /\ UNCHANGED <<values, errors, emailTaken, posts, gets, timers, lastLookup, today, tzWest>>

\* A handleSubmit that calls onSubmit whatever the resolver found.
ValidateThenAlwaysSubmit ==
  /\ phase = "Validating"
  /\ phase' = "Idle"
  /\ errors' = Resolver(values, today, tzWest)
  /\ \E ok \in BOOLEAN : posts' = Append(posts, [data |-> values, ok |-> ok])
  /\ timers' = Rerender(timers)
  /\ UNCHANGED <<values, emailTaken, gets, lastLookup, today, tzWest>>

\* A handleSubmit that refuses to post while the address is shown as taken.
ValidateUnlessTaken ==
  /\ phase = "Validating"
  /\ phase' = "Idle"
  /\ errors' = Resolver(values, today, tzWest)
  /\ IF errors' # NoErrors \/ emailTaken = "taken"
     THEN /\ posts' = posts
          /\ timers' = Rerender(timers)
     ELSE /\ \E ok \in BOOLEAN : posts' = Append(posts, [data |-> values, ok |-> ok])
          /\ timers' = timers
  /\ UNCHANGED <<values, emailTaken, gets, lastLookup, today, tzWest>>

\* A handleSubmit that publishes the errors of an Invalid record but never
\* finishes: the submission stays in Validating.
ValidateHangsOnInvalid ==
  /\ phase = "Validating"
  /\ errors' = Resolver(values, today, tzWest)
  /\ IF errors' # NoErrors
     THEN /\ phase' = "Validating"
          /\ posts' = posts
          /\ timers' = Rerender(timers)
     ELSE /\ phase' = "Idle"
          /\ \E ok \in BOOLEAN : posts' = Append(posts, [data |-> values, ok |-> ok])
          /\ timers' = timers
  /\ UNCHANGED <<values, emailTaken, gets, lastLookup, today, tzWest>>

\* handleSubmit after the resolver: with errors they are published and
\* onSubmit is not called; without, onSubmit posts the record.
Validate ==
  /\ phase = "Validating"
  /\ phase' = "Idle"
  /\ errors' = Resolver(values, today, tzWest)
  /\ IF errors' # NoErrors
     THEN /\ posts' = posts
          /\ timers' = Rerender(timers)
     ELSE /\ \E ok \in BOOLEAN : posts' = Append(posts, [data |-> values, ok |-> ok])
          /\ timers' = timers
  /\ UNCHANGED <<values, emailTaken, gets, lastLookup, today, tzWest>>

\* An onSubmit whose try block does not call reset().
AfterPostNoReset(p, v) == v

\* An onSubmit that calls reset() after the try statement, on failure too.
AfterPostAlwaysReset(p, v) == Defaults

\* reset(): the values go back to the defaults and the errors are cleared.
\* FormValues after the POST p settles: reset() on success, untouched in catch.
AfterPost(p, v) == IF p.ok THEN Defaults ELSE v

\* formState.errors after the POST p settles.
ErrorsAfterPost(p, e) == IF p.ok THEN NoErrors ELSE e

\* An onSubmit whose catch block posts the record once more.
PostSettlesRetrying(i) ==
  /\ phase = "Idle"
  /\ i \in 1..Len(posts)
  /\ posts' = IF posts[i].ok THEN Remove(posts, i)
              ELSE Append(Remove(posts, i), [data |-> posts[i].data, ok |-> TRUE])
  /\ values' = AfterPost(posts[i], values)
  /\ errors' = ErrorsAfterPost(posts[i], errors)
  /\ timers' = Rerender(timers)
  /\ UNCHANGED <<emailTaken, phase, gets, lastLookup, today, tzWest>>

\* The continuation of "await axios.post" for the i-th POST in flight, and the
\* end of handleSubmit, which publishes the form state.
PostSettles(i) ==
  /\ phase = "Idle"
  /\ i \in 1..Len(posts)
  /\ posts' = Remove(posts, i)
  /\ values' = AfterPost(posts[i], values)
  /\ errors' = ErrorsAfterPost(posts[i], errors)
  /\ timers' = Rerender(timers)
  /\ UNCHANGED <<emailTaken, phase, gets, lastLookup, today, tzWest>>

-----------------------------------------------------------------------------

Next ==
  \/ (\E f \in Fields : \E v \in Inputs(f) : SetField(f, v)) /\ UNCHANGED aux
  \/ (\E email \in Inputs("email") : handleEmailChange(email)) /\ UNCHANGED aux
  \/ TimerFires /\ UNCHANGED aux
  \/ (\E i \in 1..MaxLoad : LookupSettles(i)) /\ UNCHANGED aux
  \/ ClickSubmit /\ UNCHANGED aux
  \/ Validate /\ UNCHANGED aux
  \/ (\E i \in 1..MaxLoad : PostSettles(i)) /\ UNCHANGED aux

Spec == Init /\ [][Next]_vars

-----------------------------------------------------------------------------
(* Validation alone: the form holds any raw values, on any of a few days and *)
(* on either side of UTC, and is submitted.                                 *)

Days == {Date(2026, 11, 5), Date(2026, 11, 6), Date(2028, 3, 1)}

InitValidate ==
  /\ values \in [name : AllInputs("name"), email : AllInputs("email"),
                 date_of_birth : AllInputs("date_of_birth"), age : AllInputs("age"),
                 gender : AllInputs("gender"), termsAccepted : AllInputs("termsAccepted"),
                 privacyPolicyAccepted : AllInputs("privacyPolicyAccepted"),
                 privacySetting : AllInputs("privacySetting")]
  /\ errors = NoErrors
  /\ emailTaken = "null"
  /\ phase = "Idle"
  /\ posts = <<>>
  /\ gets = <<>>
  /\ timers = <<>>
  /\ lastLookup = NoLookup
  /\ today \in Days
  /\ tzWest \in BOOLEAN
  /\ InitAux

NextValidate ==
  \/ ClickSubmit /\ UNCHANGED aux
  \/ Validate /\ UNCHANGED aux
  \/ (\E i \in 1..MaxLoad : PostSettles(i)) /\ UNCHANGED aux

SpecValidate == InitValidate /\ [][NextValidate]_vars

-----------------------------------------------------------------------------
(* Validation over time: a filled form is submitted again and again while   *)
(* the days pass and lookups come and go.                                    *)

\* The days that pass in this specification.
MaxDays == 1

NextDay(dt) ==
  IF dt.d < DaysInMonth(dt.y, dt.m) THEN Date(dt.y, dt.m, dt.d + 1)
  ELSE IF dt.m < 12 THEN Date(dt.y, dt.m + 1, 1)
  ELSE Date(dt.y + 1, 1, 1)

\* Midnight passes: new Date() yields the next day from now on.
DayPasses ==
  /\ phase = "Idle"
  /\ today.y = Today0.y /\ today.m = Today0.m /\ today.d - Today0.d < MaxDays
  /\ today' = NextDay(today)
  /\ UNCHANGED <<values, errors, emailTaken, phase, posts, gets, timers, lastLookup, tzWest>>

\* Validate, remembered: what was validated, when, what the lookup showed
\* then, and what came out.
ValidateRecorded ==
  /\ Validate
  /\ lastValidation' =
       [done |-> TRUE, values |-> values, today |-> today, taken |-> emailTaken,
        errors |-> errors']
  /\ UNCHANGED <<mounted, privacyForm, page>>

\* The filled forms this specification starts from.
ClockForms ==
  {[name |-> "Alice", email |-> "a@b.com", date_of_birth |-> d, age |-> Num(30),
    gender |-> "male", termsAccepted |-> TRUE, privacyPolicyAccepted |-> TRUE,
    privacySetting |-> "public"] : d \in {Date(2000, 1, 1), Date(2008, 11, 6)}}

InitClock ==
  /\ values \in ClockForms
  /\ errors = NoErrors
  /\ emailTaken = "null"
  /\ phase = "Idle"
  /\ posts = <<>>
  /\ gets = <<>>
  /\ timers = <<>>
  /\ lastLookup = NoLookup
  /\ today = Today0
  /\ tzWest \in BOOLEAN
  /\ InitAux

NextClock ==
  \/ (\E email \in Inputs("email") : handleEmailChange(email)) /\ UNCHANGED aux
  \/ TimerFires /\ UNCHANGED aux
  \/ (\E i \in 1..MaxLoad : LookupSettles(i)) /\ UNCHANGED aux
  \/ ClickSubmit /\ UNCHANGED aux
  \/ ValidateRecorded
  \/ (\E i \in 1..MaxLoad : PostSettles(i)) /\ UNCHANGED aux
  \/ DayPasses /\ UNCHANGED aux

SpecClock == InitClock /\ [][NextClock]_vars

\* The same, with what the runtime and the gateway guarantee: the resolver's
\* promise resolves, so handleSubmit goes on; and every POST is answered or
\* errors, so its continuation is run, however often the user submits in
\* between.
FairValidate ==
  /\ SpecValidate
  /\ WF_vars(Validate /\ UNCHANGED aux)
  /\ \A i \in 1..MaxLoad : SF_vars(PostSettles(i) /\ UNCHANGED aux)

-----------------------------------------------------------------------------
(* The privacy-settings form *)

\* Math.abs
Abs(n) == IF n < 0 THEN 0 - n ELSE n

\* The birthDate refinement of privacySettingsSchema: the distance between
\* the current year and the birth date's year, both read in local time, is at
\* least 18.  For the empty string the year is NaN and the test is false.
PrivacyBirthDateOk(date, now, west) ==
  /\ date # NoDate
  /\ Abs(now.y - NewDate(date, west).y) >= 18

\* privacySettingsSchema, field by field.  z.literal(true) fails a false
\* before its refinement is run, so the message is zod's own.
PrivacyFieldError(f, v, now, west) ==
  CASE f = "name" -> IF v = "" THEN "Name is required" ELSE ""
    [] f = "email" -> IF IsEmail(v) THEN "" ELSE "Invalid email format"
    [] f = "birthDate" ->
         IF PrivacyBirthDateOk(v, now, west) THEN ""
         ELSE "Age must be 18 or older"
    [] f = "privacy" ->
         IF v \in {"public", "private", "protected"} THEN ""
         ELSE "Invalid enum value. Expected 'public' | 'private' | 'protected'"
    [] f = "termsAccepted" ->
         IF v = TRUE THEN "" ELSE "Invalid literal value, expected true"

PrivacyResolver(v, now, west) ==
  [f \in PrivacyFields |-> PrivacyFieldError(f, v[f], now, west)]

\* Birth dates around the 18th birthday of 2026-11-05, and one in the future.
PrivacyBirthDates ==
  {NoDate, Date(2000, 1, 1), Date(2008, 1, 1), Date(2008, 11, 5),
   Date(2008, 12, 31), Date(2009, 1, 1), Date(2050, 6, 1)}

\* handleSubmit(onSubmit) of PrivacySettingsForm: the errors of the record
\* are published, and a record without errors is posted.
PrivacySubmit ==
  /\ Len(privacyForm.posts) < MaxLoad
  /\ LET e == PrivacyResolver(privacyForm.values, today, tzWest)
     IN IF e = NoPrivacyErrors
        THEN \E ok \in BOOLEAN :
               privacyForm' =
                 [privacyForm EXCEPT
                    !.errors = e,
                    !.posts = Append(@, [data |-> privacyForm.values, ok |-> ok])]
        ELSE privacyForm' = [privacyForm EXCEPT !.errors = e]
  /\ UNCHANGED <<values, errors, emailTaken, phase, posts, gets, timers,
                 lastLookup, today, tzWest, mounted, lastValidation, page>>

\* submitPrivacySettings settles: either branch of onSubmit only logs.
PrivacyPostSettles(i) ==
  /\ i \in 1..Len(privacyForm.posts)
  /\ privacyForm' = [privacyForm EXCEPT !.posts = Remove(@, i)]
  /\ UNCHANGED <<values, errors, emailTaken, phase, posts, gets, timers,
                 lastLookup, today, tzWest, mounted, lastValidation, page>>

\* The privacy-settings form filled in, in either kind of time zone.
InitPrivacy ==
  /\ values = Defaults
  /\ errors = NoErrors
  /\ emailTaken = "null"
  /\ phase = "Idle"
  /\ posts = <<>>
  /\ gets = <<>>
  /\ timers = <<>>
  /\ lastLookup = NoLookup
  /\ today = Today0
  /\ tzWest \in BOOLEAN
  /\ mounted = TRUE
  /\ lastValidation = NoValidation
  /\ page = PageMounted
  /\ \E v \in [name : {"", "Alice"}, email : {"bob", "c@d.com"},
               birthDate : PrivacyBirthDates,
               privacy : {"public", "private", "protected"},
               termsAccepted : BOOLEAN] :
       privacyForm = [PrivacyMounted EXCEPT !.values = v]

NextPrivacy ==
  \/ PrivacySubmit
  \/ \E i \in 1..MaxLoad : PrivacyPostSettles(i)

SpecPrivacy == InitPrivacy /\ [][NextPrivacy]_vars

-----------------------------------------------------------------------------
(* Unmounting the form *)

\* The component is removed from the page.  It registers no cleanup: the
\* pending debounce timers and the requests in flight stay as they are.
Unmount ==
  /\ mounted
  /\ mounted' = FALSE
  /\ UNCHANGED <<values, errors, emailTaken, phase, posts, gets, timers,
                 lastLookup, today, tzWest, lastValidation, privacyForm, page>>

\* The continuation of "await axios.get" once the component is unmounted:
\* React drops the setEmailTaken of an unmounted component, nothing renders.
LookupSettlesUnmounted(i) ==
  /\ phase = "Idle"
  /\ i \in 1..Len(gets)
  /\ gets' = Remove(gets, i)
  /\ UNCHANGED <<values, errors, emailTaken, phase, posts, timers, lastLookup,
                 today, tzWest>>

\* The form with its user present until it is unmounted; timers, handleSubmit
\* and the continuations of the requests run on afterwards.
NextUnmount ==
  \/ mounted /\ (\E f \in Fields : \E v \in Inputs(f) : SetField(f, v)) /\ UNCHANGED aux
  \/ mounted /\ (\E email \in Inputs("email") : handleEmailChange(email)) /\ UNCHANGED aux
  \/ TimerFires /\ UNCHANGED aux
  \/ mounted /\ (\E i \in 1..MaxLoad : LookupSettles(i)) /\ UNCHANGED aux
  \/ ~mounted /\ (\E i \in 1..MaxLoad : LookupSettlesUnmounted(i)) /\ UNCHANGED aux
  \/ mounted /\ ClickSubmit /\ UNCHANGED aux
  \/ Validate /\ UNCHANGED aux
  \/ (\E i \in 1..MaxLoad : PostSettles(i)) /\ UNCHANGED aux
  \/ Unmount

SpecUnmount == Init /\ [][NextUnmount]_vars

-----------------------------------------------------------------------------
(* The counters of the Home page *)

\* At most this many Increment and Decrement clicks are made on the page.
MaxClicks == 3

\* What the user may have in a text input.
Texts == {"", "a"}

TotalClicks ==
  LET n(t) == page.clicks[t].inc + page.clicks[t].dec
  IN n("store") + n("CounterWithState") + n("CounterWithStateWithLayout")

formVars ==
  <<values, errors, emailTaken, phase, posts, gets, timers, lastLookup, today,
    tzWest, mounted, lastValidation, privacyForm>>

\* The store's actions: set merges what the updater returns into the state.
increment(state) == [state EXCEPT !.count = state.count + 1]

\* A decrement that stops at zero.
decrementFloored(state) ==
  [state EXCEPT !.count = IF state.count > 0 THEN state.count - 1 ELSE 0]

decrement(state) == [state EXCEPT !.count = state.count - 1]

setText(state, text) == [state EXCEPT !.text = text]

\* onClick={increment} of a store-backed counter.
ZustandIncrement(c) ==
  /\ TotalClicks < MaxClicks
  /\ page' = [page EXCEPT !.store = increment(@),
                          !.clicks["store"].inc = @ + 1]
  /\ UNCHANGED formVars

\* onClick={decrement} of a store-backed counter.
ZustandDecrement(c) ==
  /\ TotalClicks < MaxClicks
  /\ page' = [page EXCEPT !.store = decrement(@),
                          !.clicks["store"].dec = @ + 1]
  /\ UNCHANGED formVars

\* onChange of the text input of a store-backed counter: setText(e.target.value).
ZustandSetText(c, text) ==
  /\ text # page.shown[c].text
  /\ page' = [page EXCEPT !.store = setText(@, text),
                          !.lastText = text]
  /\ UNCHANGED formVars

\* increment of a useState counter: setCount(count + 1), count being the
\* constant of the render that created this handler.
StateIncrement(c) ==
  /\ TotalClicks < MaxClicks
  /\ page' = [page EXCEPT !.local[c].count = page.shown[c].count + 1,
                          !.clicks[c].inc = @ + 1]
  /\ UNCHANGED formVars

\* decrement of a useState counter: setCount(count - 1).
StateDecrement(c) ==
  /\ TotalClicks < MaxClicks
  /\ page' = [page EXCEPT !.local[c].count = page.shown[c].count - 1,
                          !.clicks[c].dec = @ + 1]
  /\ UNCHANGED formVars

\* handleTextChange of a useState counter: setText(e.target.value).
handleTextChange(c, text) ==
  /\ text # page.shown[c].text
  /\ page' = [page EXCEPT !.local[c].text = text]
  /\ UNCHANGED formVars

\* What a render of c reads: useStore() or the useState hooks of c.
Current(c) == IF c \in StoreBacked THEN page.store ELSE page.local[c]

\* A commit that renders CounterWithZustandWithLayout from a store of its own,
\* which no action reaches.
CommitTwoStores ==
  /\ \E c \in Components : page.shown[c] # Current(c)
  /\ page' = [page EXCEPT !.shown =
                [c \in Components |->
                   IF c = "CounterWithZustandWithLayout" THEN StoreCreated
                   ELSE Current(c)]]
  /\ UNCHANGED formVars

\* React renders the components whose state changed and commits the page:
\* the four counters are in one root, so one commit brings all of them up to
\* date.
Commit ==
  /\ \E c \in Components : page.shown[c] # Current(c)
  /\ page' = [page EXCEPT !.shown = [c \in Components |-> Current(c)]]
  /\ UNCHANGED formVars

NextCounters ==
  \/ \E c \in StoreBacked : ZustandIncrement(c)
  \/ \E c \in StoreBacked : ZustandDecrement(c)
  \/ \E c \in StoreBacked : \E text \in Texts : ZustandSetText(c, text)
  \/ \E c \in StateBacked : StateIncrement(c)
  \/ \E c \in StateBacked : StateDecrement(c)
  \/ \E c \in StateBacked : \E text \in Texts : handleTextChange(c, text)
  \/ Commit

SpecCounters == Init /\ [][NextCounters]_vars

-----------------------------------------------------------------------------
(* Steps the properties speak about *)

\* handleSubmit finishes validating in this step.
ValidationEnds == phase = "Validating" /\ phase' = "Idle"

\* The i-th POST in flight settles in this step.
PostGone(i) == i \in 1..Len(posts) /\ posts' = Remove(posts, i)

\* The i-th GET in flight settles in this step.
GetGone(i) == i \in 1..Len(gets) /\ gets' = Remove(gets, i)

Valid(v) == Resolver(v, today, tzWest) = NoErrors

-----------------------------------------------------------------------------
(* Properties *)

\* C1: on every submit attempt, Invalid values have their errors published
\* and no POST is sent, Valid values are posted as they are; so every record
\* in flight to the users endpoint satisfies the whole schema (termsAccepted
\* is true in it).
C1_OnlyValidRecordsArePosted ==
  /\ [](\A i \in 1..Len(posts) :
          Valid(posts[i].data) /\ posts[i].data.termsAccepted = TRUE)
  /\ [][ValidationEnds =>
          IF Valid(values)
          THEN /\ Len(posts') = Len(posts) + 1
               /\ SubSeq(posts', 1, Len(posts)) = posts
               /\ posts'[Len(posts')].data = values
          ELSE /\ posts' = posts
               /\ errors' = Resolver(values, today, tzWest)
               /\ errors' # NoErrors]_vars

\* C1 happens: an Invalid submit (termsAccepted unticked) has published its
\* error and sent nothing, while an earlier Valid record is in flight.
C1_Witness ==
  /\ Len(posts) = 1
  /\ posts[1].data.termsAccepted = TRUE
  /\ values.termsAccepted = FALSE
  /\ errors.termsAccepted = "You must accept the terms and conditions"

\* C2: when the POST of a Valid record settles with success, FormValues are
\* the declared defaults (privacySetting "public", every other field as
\* mounted) and FieldErrors is empty right after.
C2_SuccessResets ==
  [][\A i \in 1..Len(posts) :
       (PostGone(i) /\ posts[i].ok) =>
         /\ values' = Defaults
         /\ values'.privacySetting = "public"
         /\ \A f \in Fields : errors'[f] = ""]_vars

\* C2 happens: an address had been typed and looked up, and the form is
\* back at its defaults, which only a successful submission brings about.
C2_Witness ==
  /\ lastLookup.sent
  /\ timers = <<>>
  /\ posts = <<>>
  /\ values = Defaults
  /\ errors = NoErrors

C4_OneLookupPerBurst == Len(timers) <= 1

\* C5: once every lookup has settled, emailTaken shows the result of the
\* lookup issued last, if that one succeeded; the response of a superseded
\* lookup has not overwritten it.
C5_LatestLookupWins ==
  (gets = <<>> /\ lastLookup.sent /\ lastLookup.ok) =>
    emailTaken = Availability(lastLookup.email)

\* C6: at most one POST to the users endpoint is in flight at any time.
C6_OnePostInFlight == Len(posts) <= 1

\* C7: the reset after a successful submission leaves emailTaken at null.
C7_ResetClearsAvailability ==
  [][\A i \in 1..Len(posts) :
       (PostGone(i) /\ posts[i].ok) => emailTaken' = "null"]_vars

\* C8: after a lookup that failed, emailTaken is null, whatever it was.
C8_FailedLookupShowsUnknown ==
  [][\A i \in 1..Len(gets) :
       (GetGone(i) /\ ~gets[i].ok) => emailTaken' = "null"]_vars

\* C9: whatever emailTaken shows and whatever lookups are pending or in
\* flight, a submit of Valid values sends the POST with them, and the
\* published errors are those of the values alone; validating does not
\* touch emailTaken.
C9_AvailabilityNeverBlocks ==
  [][ValidationEnds =>
       /\ emailTaken' = emailTaken
       /\ \A f \in Fields : errors'[f] = FieldError(f, values[f], today, tzWest)
       /\ (\A f \in Fields : FieldError(f, values[f], today, tzWest) = "") =>
            /\ Len(posts') = Len(posts) + 1
            /\ posts'[Len(posts')].data = values]_vars

\* C9 happens: Valid values are being submitted while the address is shown
\* as taken and a lookup is pending or in flight.
C9_Witness ==
  /\ phase = "Validating"
  /\ Valid(values)
  /\ emailTaken = "taken"
  /\ Len(timers) + Len(gets) > 0

\* C10: validation reports every field that violates its rule, not only the
\* first: after a submit, each such field (each missing required field in
\* particular) has an entry in FieldErrors.
C10_AllErrorsCollected ==
  [][ValidationEnds =>
       /\ \A f \in Fields :
            FieldError(f, values[f], today, tzWest) # "" => errors'[f] # ""
       /\ \A f \in {"name", "email", "date_of_birth", "termsAccepted",
                     "privacyPolicyAccepted"} :
            values[f] = Defaults[f] => errors'[f] # ""]_vars

\* C10 happens: a submit has published errors for several fields at once,
\* the first and the last required ones among them.
C10_Witness ==
  /\ phase = "Idle"
  /\ errors.name # ""
  /\ errors.date_of_birth # ""
  /\ errors.privacyPolicyAccepted # ""
  /\ values.name = ""
  /\ values.privacyPolicyAccepted = FALSE

\* The age in whole years of someone born on birth, on the day now: the
\* difference of the years, less one when now's month and day come before
\* the birthday's.
WholeYears(birth, now) ==
  IF now.m < birth.m \/ (now.m = birth.m /\ now.d < birth.d)
  THEN now.y - birth.y - 1
  ELSE now.y - birth.y

\* C11: for every birth date and every current date, validation leaves
\* date_of_birth without error exactly when the age in whole years is at
\* least 18 (18 today passes, one day short of 18 fails).
C11_AgeRule ==
  [][(ValidationEnds /\ values.date_of_birth # NoDate) =>
       (errors'.date_of_birth = "" <=>
          WholeYears(values.date_of_birth, today) >= 18)]_vars

\* The values being validated in this step were validated before.
ValidatedBefore ==
  ValidationEnds /\ lastValidation.done /\ lastValidation.values = values

\* C12 as stated: two validations of identical FormValues give identical
\* results at any two points of an execution, whatever time has passed.
C12_ValidatePure ==
  [][ValidatedBefore => errors' = lastValidation.errors]_vars

\* C12, amended: two validations of identical FormValues on the same current
\* date give identical results, whatever the lookup showed at either time and
\* whatever was validated in between.
C12_ValidatePureOnOneDay ==
  [][(ValidatedBefore /\ lastValidation.today = today) =>
       errors' = lastValidation.errors]_vars

\* C12 happens: values validated earlier the same day are being validated
\* again, and the lookup shows something else than it did then.
C12_Witness ==
  /\ phase = "Validating"
  /\ lastValidation.done
  /\ lastValidation.values = values
  /\ lastValidation.today = today
  /\ lastValidation.taken # emailTaken
  /\ emailTaken = "taken"

\* Every required field of the form holds a value that passes its rule.
RequiredFieldsPass ==
  \A f \in Fields \ {"age", "gender"} :
    FieldError(f, values[f], today, tzWest) = ""

\* C13: age and gender are optional: a form whose required fields are all
\* filled validly, with the age input left empty and the gender select left on
\* "Select...", validates as Valid and is posted.
C13_OptionalFieldsMayStayEmpty ==
  [][(ValidationEnds /\ RequiredFieldsPass
        /\ values.age = Defaults.age /\ values.gender = Defaults.gender) =>
       /\ errors' = NoErrors
       /\ Len(posts') = Len(posts) + 1]_vars

\* C14: after validation, termsAccepted and privacyPolicyAccepted each carry
\* no error exactly when their own value is true, and their fixed message
\* otherwise, whatever the other fields hold.
C14_MustBeTrue ==
  [][ValidationEnds =>
       /\ errors'.termsAccepted =
            (IF values.termsAccepted = TRUE THEN ""
             ELSE "You must accept the terms and conditions")
       /\ errors'.privacyPolicyAccepted =
            (IF values.privacyPolicyAccepted = TRUE THEN ""
             ELSE "You must accept the Privacy Policy")]_vars

\* C14 happens: a submit has left the ticked termsAccepted without error and
\* the unticked privacyPolicyAccepted with its message, with other fields in
\* error too.
C14_Witness ==
  /\ phase = "Idle"
  /\ values.termsAccepted = TRUE
  /\ values.privacyPolicyAccepted = FALSE
  /\ errors.termsAccepted = ""
  /\ errors.privacyPolicyAccepted = "You must accept the Privacy Policy"
  /\ errors.name # ""

\* C15: after validation, privacySetting carries no error exactly when its
\* value is one of public, private, protected, and "Select a valid privacy
\* option" otherwise; the declared default is "public", so validating the
\* form as initialised gives no privacySetting error, and a successful
\* submission leaves the field at "public" without error.
C15_PrivacySettingEnum ==
  /\ Defaults.privacySetting = "public"
  /\ [][/\ ValidationEnds =>
             errors'.privacySetting =
               (IF values.privacySetting \in {"public", "private", "protected"}
                THEN "" ELSE "Select a valid privacy option")
        /\ (ValidationEnds /\ values = Defaults) => errors'.privacySetting = ""
        /\ \A i \in 1..Len(posts) :
             (PostGone(i) /\ posts[i].ok) =>
               /\ values'.privacySetting = "public"
               /\ errors'.privacySetting = ""]_vars

\* C15 happens: a submit has found no radio button checked and published the
\* message on privacySetting.
C15_Witness ==
  /\ phase = "Idle"
  /\ values.privacySetting \notin {"public", "private", "protected"}
  /\ errors.privacySetting = "Select a valid privacy option"

\* The privacy-settings form validates its record in this step.
PrivacyValidated ==
  /\ privacyForm' # privacyForm
  /\ privacyForm'.values = privacyForm.values
  /\ Len(privacyForm'.posts) >= Len(privacyForm.posts)

\* C16: the privacy-settings form leaves birthDate without error exactly when
\* the age in whole years on the current date is at least 18; a birth date
\* less than 18 full years back, or in the future, gets "Age must be 18 or
\* older".
C16_PrivacyBirthDateRule ==
  [][(PrivacyValidated /\ privacyForm.values.birthDate # NoDate) =>
       /\ privacyForm'.errors.birthDate = "" <=>
            WholeYears(privacyForm.values.birthDate, today) >= 18
       /\ privacyForm'.errors.birthDate \in {"", "Age must be 18 or older"}]_vars

\* C17: once the form is unmounted, no availability lookup is issued any
\* more, and a step in which a GET or a POST settles leaves FormValues,
\* FieldErrors and emailTaken as they were.
C17_UnmountCancels ==
  [][~mounted =>
       /\ Len(gets') <= Len(gets)
       /\ \A i \in 1..MaxLoad :
            (GetGone(i) \/ PostGone(i)) =>
              /\ values' = values
              /\ errors' = errors
              /\ emailTaken' = emailTaken]_vars

\* C18: a submission goes from Validating back to Idle, publishing errors
\* and posting nothing when the record is Invalid, and entering Submitting
\* (its POST in flight) only when the record is Valid; no other step starts
\* a POST; a POST that succeeds resets the form, one that fails leaves the
\* values unchanged, and both leave the form Idle.  Given that the gateway
\* answers every POST, a submission that is Validating becomes Idle, and the
\* POST at any position in flight settles or moves towards the head: unless
\* that position ends up empty for good, POSTs at or before it keep settling.
C18_SubmissionStateMachine ==
  /\ [][/\ phase' # phase =>
             \/ phase = "Idle" /\ phase' = "Validating" /\ posts' = posts
             \/ ValidationEnds
        /\ ValidationEnds =>
             IF Valid(values)
             THEN Len(posts') = Len(posts) + 1 /\ errors' = NoErrors
             ELSE posts' = posts /\ errors' # NoErrors
        /\ Len(posts') > Len(posts) => (ValidationEnds /\ Valid(values))
        /\ \A i \in 1..Len(posts) :
             PostGone(i) =>
               /\ phase = "Idle" /\ phase' = "Idle"
               /\ values' = (IF posts[i].ok THEN Defaults ELSE values)]_vars
  /\ (phase = "Validating") ~> (phase = "Idle")
  /\ \A i \in 1..MaxLoad :
       \/ []<><<\E j \in 1..i : PostGone(j)>>_vars
       \/ <>[](Len(posts) < i)

\* C18 happens: a Valid submission is Validating while the POST of an
\* earlier one, which is going to fail, is still in flight.
C18_Witness ==
  /\ phase = "Validating"
  /\ Valid(values)
  /\ Len(posts) = 1
  /\ ~posts[1].ok

\* The earliest pending debounce timer fires in this step.
TimerGone == timers # <<>> /\ Len(timers') = Len(timers) - 1

\* C19: the POSTs in flight change only by one POST being appended when a
\* submit handler finishes validating, or by one settling; the GETs in
\* flight change only by exactly one GET, for the timer's address, being
\* appended when a debounce timer fires, or by one settling; and a step in
\* which a request settles, with success or failure, starts no request and
\* no timer.
C19_SingleAttempt ==
  [][/\ posts' # posts =>
          \/ /\ ValidationEnds
             /\ Len(posts') = Len(posts) + 1
             /\ SubSeq(posts', 1, Len(posts)) = posts
          \/ \E i \in 1..Len(posts) : PostGone(i)
     /\ gets' # gets =>
          \/ /\ TimerGone
             /\ Len(gets') = Len(gets) + 1
             /\ SubSeq(gets', 1, Len(gets)) = gets
             /\ gets'[Len(gets')].email = Head(timers).email
          \/ \E i \in 1..Len(gets) : GetGone(i)
     /\ TimerGone => Len(gets') = Len(gets) + 1
     /\ (\E i \in 1..MaxLoad : GetGone(i) \/ PostGone(i)) =>
          /\ Len(posts') <= Len(posts)
          /\ Len(gets') <= Len(gets)
          /\ Len(timers') = Len(timers)]_vars

\* C19 happens: the lookup of the typed address has failed and nothing is
\* pending or in flight afterwards.
C19_Witness ==
  /\ lastLookup.sent
  /\ ~lastLookup.ok
  /\ lastLookup.email = values.email
  /\ timers = <<>>
  /\ gets = <<>>
  /\ posts = <<>>
  /\ emailTaken = "null"

\* C20: emailTaken starts as null and changes only in a step in which a GET
\* settles with success, to what that response says; edits, validation and
\* the settling of a POST leave it as it is; and a step in which a GET
\* settles leaves FormValues and FieldErrors as they are.
C20_AvailabilityFrame ==
  /\ emailTaken = "null"
  /\ [][/\ emailTaken' # emailTaken =>
             \E i \in 1..Len(gets) :
               /\ GetGone(i)
               /\ gets[i].ok
               /\ emailTaken' = Availability(gets[i].email)
        /\ (values' # values \/ errors' # errors \/ phase' # phase \/ posts' # posts) =>
             emailTaken' = emailTaken
        /\ \A i \in 1..Len(gets) :
             GetGone(i) => (values' = values /\ errors' = errors)]_vars

\* C20 happens: the address shown as taken has been replaced by another one
\* whose lookup is still pending, and emailTaken still says taken.
C20_Witness ==
  /\ emailTaken = "taken"
  /\ values.email = "c@d.com"
  /\ Len(timers) = 1
  /\ timers[1].email = "c@d.com"

\* C21: the store starts at count 0 and text ""; at every moment its count
\* is the number of increments minus the number of decrements made so far
\* (below zero when the decrements are more) and its text is the argument of
\* the last setText; a step that counts an increment or decrement leaves text
\* as it is, and a step that changes text leaves count as it is.
C21_StoreCounts ==
  /\ page.store = [count |-> 0, text |-> ""]
  /\ [](/\ page.store.count = page.clicks["store"].inc - page.clicks["store"].dec
        /\ page.store.text = page.lastText)
  /\ [][/\ page'.clicks["store"] # page.clicks["store"] =>
             /\ page'.store.text = page.store.text
             /\ page'.store.count \in {page.store.count + 1, page.store.count - 1}
        /\ page'.store.text # page.store.text =>
             page'.store.count = page.store.count]_vars

\* C21 happens: after one increment, two decrements and a setText("a") the
\* store holds count -1 and text "a".
C21_Witness ==
  /\ page.clicks["store"] = [inc |-> 1, dec |-> 2]
  /\ page.store = [count |-> 0 - 1, text |-> "a"]

\* C22: the two store-backed counters always show the same count and text,
\* and what they show comes from the one store, whichever of them the action
\* was triggered from; a step that changes the store changes neither the
\* state nor the display of a useState counter; a step that changes the state
\* of one useState counter changes neither the store nor the other useState
\* counter; and a useState counter shows only its own state.
C22_StoreSharedLocalPrivate ==
  /\ [](page.shown["CounterWithZustand"] = page.shown["CounterWithZustandWithLayout"])
  /\ [][/\ page'.store # page.store =>
             /\ page'.local = page.local
             /\ \A c \in StateBacked : page'.shown[c] = page.shown[c]
        /\ \A c \in StateBacked :
             page'.local[c] # page.local[c] =>
               /\ page'.store = page.store
               /\ \A d \in StateBacked \ {c} : page'.local[d] = page.local[d]
               /\ \A d \in Components \ {c} : page'.shown[d] = page.shown[d]
        /\ \A c \in StoreBacked :
             page'.shown[c] # page.shown[c] => page'.shown[c] = page.store
        /\ \A c \in StateBacked :
             page'.shown[c] # page.shown[c] => page'.shown[c] = page.local[c]]_vars

\* C22 happens: both store-backed counters show count 1 and text "a" while
\* one useState counter shows -1 and the other still 0, each with no text.
C22_Witness ==
  /\ page.shown["CounterWithZustand"] = [count |-> 1, text |-> "a"]
  /\ page.shown["CounterWithZustandWithLayout"] = [count |-> 1, text |-> "a"]
  /\ page.shown["CounterWithState"] = [count |-> 0 - 1, text |-> ""]
  /\ page.shown["CounterWithStateWithLayout"] = [count |-> 0, text |-> ""]

\* Every counter shows its current state: no render is outstanding.
Rendered == \A c \in Components : page.shown[c] = Current(c)

\* C23: once rendered, a useState counter shows the number of its Increment
\* clicks minus the number of its Decrement clicks, as the store does for the
\* same clicks, also when several clicks were handled between two renders.
C23_LocalCountsLikeStore ==
  Rendered =>
    \A c \in StateBacked :
      page.shown[c].count = page.clicks[c].inc - page.clicks[c].dec

====
